---- MODULE Spec2Model ----
(***************************************************************************)
(* File explorer (src/src/main.ts): a tree view and a list view over a     *)
(* directory-listing endpoint, an insertion-ordered set of expanded        *)
(* folders and the current path.  JavaScript runs one task at a time, so   *)
(* an operation runs without interruption from the event that wakes it (a  *)
(* click, the arrival of a listing response) to its next listing request   *)
(* or to its end; the operations interleave at their requests.             *)
(*                                                                         *)
(* Strings are sequences of one-character strings, so that split, join,    *)
(* startsWith and the path helpers are computed as the code computes them. *)
(* A constructed function is concatenated with <<>> (a sequence) or merged  *)
(* with <<>> (a map) so that TLC holds it as an explicit value.            *)
(***************************************************************************)
EXTENDS Integers, Sequences, FiniteSets, TLC

VARIABLES
    expandedFolders,  \* state.expandedFolders: a JS Set, in insertion order
    currentPath,      \* state.currentPath
    treeView,         \* the DOM under state.treeView: position -> tree item
    listView,         \* the DOM under state.listView: the rows, and the path they were listed from
    ops,              \* the operations suspended at a listing request
    done,             \* the locals of the operation that ended last
    failed,           \* some listing request was answered with an error
    clicks,           \* the clicks made so far, where they are bounded
    rejections,       \* the errors the network rejected a listing request with
    arg,              \* the arguments of a function that is called on its own
    result,           \* what that call returned or threw
    instances         \* the state records of several explorers, as objects

vars == <<expandedFolders, currentPath, treeView, listView, ops, done, failed, clicks,
          rejections, arg, result, instances>>

\* The functions called on their own
calls == <<arg, result>>

\* What the operations of the explorer leave alone
aux == <<rejections, arg, result, instances>>

\* What a function called on its own leaves alone
explorer == <<expandedFolders, currentPath, treeView, listView, ops, done, failed, clicks,
              rejections, instances>>

\* ---------------------------------------------------------------- bounds
MaxPending == 2     \* operations suspended at a request at the same time
MaxClicks == 3      \* clicks of a run in which clicks need not wait for each other
MaxSetLen == 3      \* members of an arbitrary expandedFolders (SpecSet)
MaxRejects == 1     \* listing requests that the network rejects in one run
MaxInstances == 2   \* explorers created side by side
MaxSegments == 3    \* segments of a path requested from the endpoint
MaxNameLen == 2     \* characters of a name given to buildPath
MaxPathLen == 3     \* characters of a parent path given to buildPath
MaxInputLen == 5    \* characters of a path given to getParentPath
MaxDigits == 5      \* base-1024 digits of a size given to formatSize

\* --------------------------------------------------------------- strings
ROOT == <<"/">>
EMPTY == <<>>
DOTS == <<".", ".", ".">>

RECURSIVE splitAcc(_, _, _)
splitAcc(s, parts, cur) ==
    IF s = <<>> THEN Append(parts, cur)
    ELSE IF Head(s) = "/" THEN splitAcc(Tail(s), Append(parts, cur), <<>>)
    ELSE splitAcc(Tail(s), parts, Append(cur, Head(s)))

\* path.split('/')
split(s) == splitAcc(s, <<>>, <<>>)

\* .filter(Boolean): the empty string is falsy
filterBoolean(parts) == SelectSeq(parts, LAMBDA p : p # <<>>)

RECURSIVE join(_)
\* parts.join('/')
join(parts) ==
    IF parts = <<>> THEN <<>>
    ELSE IF Len(parts) = 1 THEN parts[1]
    ELSE parts[1] \o <<"/">> \o join(Tail(parts))

startsWith(s, prefix) ==
    /\ Len(s) >= Len(prefix)
    /\ SubSeq(s, 1, Len(prefix)) = prefix

buildPathAppends(name, parentPath) == parentPath \o <<"/">> \o name

buildPath(name, parentPath) ==
    IF parentPath = ROOT THEN <<"/">> \o name ELSE parentPath \o <<"/">> \o name

getParentPathUnfiltered(path) ==
    IF path = ROOT \/ path = <<>> THEN ROOT
    ELSE LET parts == split(path)
             rest == SubSeq(parts, 1, Len(parts) - 1)
         IN  IF Len(rest) = 0 THEN ROOT ELSE <<"/">> \o join(rest)

getParentPath(path) ==
    IF path = ROOT \/ path = <<>> THEN ROOT
    ELSE LET parts == filterBoolean(split(path))
             rest == SubSeq(parts, 1, Len(parts) - 1)    \* parts.pop()
         IN  IF Len(rest) = 0 THEN ROOT ELSE <<"/">> \o join(rest)

\* path.split('/').pop()
lastSegment(path) == LET parts == split(path) IN parts[Len(parts)]

\* ----------------------------------------------------- the served directory
Folder(n) == [type |-> "folder", name |-> n]
File(n) == [type |-> "file", name |-> n]

PathA == <<"/", "a">>
PathA2 == <<"/", "a", "2">>
PathAA == <<"/", "a", "/", "a">>
PathO == <<"/", "o">>
\* A directory whose name is three dots, inside a2
PathDots == PathA2 \o <<"/">> \o DOTS

Dirs == {ROOT, PathA, PathA2, PathAA, PathDots}

\* fs.readdir + fs.stat of the directory at path
readdir(path) ==
    CASE path = ROOT -> <<Folder(<<"a">>), Folder(<<"a", "2">>), File(<<"f">>)>>
      [] path = PathA -> <<Folder(<<"a">>), File(<<"f">>)>>
      [] path = PathA2 -> <<Folder(DOTS)>>
      [] OTHER -> <<>>

\* The listing endpoint: the items of a directory, an error object otherwise
listingEndpoint(path) ==
    IF path \in Dirs THEN [ok |-> TRUE, data |-> readdir(path)]
    ELSE [ok |-> FALSE, data |-> <<>>]

fetchFolderContents(path) == listingEndpoint(path)

\* ------------------------------------------------- state.expandedFolders
has(ef, p) == \E i \in DOMAIN ef : ef[i] = p

add(ef, p) == IF has(ef, p) THEN ef ELSE Append(ef, p)

createInitialState ==
    [ef |-> <<ROOT>>, cur |-> ROOT]

matchesRemoved(expandedPath, path) ==
    expandedPath = path \/ startsWith(expandedPath, path \o <<"/">>)

RECURSIVE removeLoop(_, _, _)
\* for (const expandedPath of set): a deleted entry is unlinked, and the
\* iterator goes on to the entry after it
removeLoop(entries, i, path) ==
    IF i > Len(entries) THEN entries
    ELSE IF entries[i].live /\ matchesRemoved(entries[i].key, path)
         THEN removeLoop([entries EXCEPT ![i].live = FALSE], i + 1, path)
         ELSE removeLoop(entries, i + 1, path)

RECURSIVE spliceLoop(_, _, _)
spliceLoop(ef, i, path) ==
    IF i > Len(ef) THEN ef
    ELSE IF matchesRemoved(ef[i], path)
         THEN spliceLoop(SubSeq(ef, 1, i - 1) \o SubSeq(ef, i + 1, Len(ef)), i + 1, path)
         ELSE spliceLoop(ef, i + 1, path)

\* removeExpandedFolder over an array spliced while it is iterated by index
removeExpandedFolderSplice(ef, path) == spliceLoop(ef, 1, path)

removeExpandedFolder(ef, path) ==
    LET entries == [i \in DOMAIN ef |-> [key |-> ef[i], live |-> TRUE]] \o <<>>
        left == SelectSeq(removeLoop(entries, 1, path), LAMBDA e : e.live)
    IN  [i \in DOMAIN left |-> left[i].key] \o <<>>

\* ------------------------------------------------------------------- DOM
\* A tree item is addressed by its position: the child indices from
\* state.treeView down to it.  <<>> is state.treeView itself, and stands for
\* null where an element is looked up.
NoNode == <<>>

IsUnder(r, q) == Len(r) > Len(q) /\ SubSeq(r, 1, Len(q)) = q

childrenOf(tree, q) == {r \in DOMAIN tree : Len(r) = Len(q) + 1 /\ IsUnder(r, q)}

RECURSIVE LexLess(_, _)
\* document order (a parent before its children, children in order)
LexLess(a, b) ==
    IF a = <<>> THEN b # <<>>
    ELSE IF b = <<>> THEN FALSE
    ELSE IF a[1] # b[1] THEN a[1] < b[1]
    ELSE LexLess(Tail(a), Tail(b))

\* state.treeView.querySelector(`[data-path="${path}"]`)
querySelector(tree, path) ==
    LET M == {q \in DOMAIN tree : tree[q].path = path}
    IN  IF M = {} THEN NoNode
        ELSE CHOOSE q \in M : \A r \in M : r = q \/ LexLess(q, r)

keepChildren(tree, q) == tree

\* element.innerHTML = ''
clearChildren(tree, q) ==
    [r \in {x \in DOMAIN tree : ~IsUnder(x, q)} |-> tree[r]] @@ <<>>

treeItemIconClosed(path, type, level, open) ==
    [path |-> path, type |-> type, level |-> level,
     open |-> open, iconOpen |-> FALSE, selected |-> FALSE]

treeItem(path, type, level, open) ==
    [path |-> path, type |-> type, level |-> level,
     open |-> open, iconOpen |-> open, selected |-> FALSE]

\* data.forEach(item => ...); parentElement.appendChild(fragment)
appendItems(tree, q, data, level, parentPath) ==
    LET n == Cardinality(childrenOf(tree, q))
        new == {q \o <<n + i>> : i \in DOMAIN data}
    IN  [r \in DOMAIN tree \cup new |->
            IF r \in DOMAIN tree THEN tree[r]
            ELSE LET item == data[r[Len(r)] - n]
                 IN  treeItem(buildPath(item.name, parentPath), item.type, level + 1, FALSE)]
        @@ <<>>

updateTreeView(tree, data, parentElement, level, parentPath) ==
    IF level = 0
    THEN LET cleared == clearChildren(tree, parentElement)
             rootDiv == parentElement \o <<1>>
             withRoot == [r \in DOMAIN cleared \cup {rootDiv} |->
                            IF r = rootDiv THEN treeItem(ROOT, "folder", 0, TRUE)
                            ELSE cleared[r]] @@ <<>>
         IN  appendItems(withRoot, rootDiv, data, level, ROOT)
    ELSE appendItems(tree, parentElement, data, level, parentPath)

\* The rows of a listing; a folder row's handler reads state.currentPath
\* when it is clicked, not when the row is built
listRow(name, icon, open, onClick) ==
    [name |-> name, icon |-> icon, open |-> open, selected |-> FALSE, onClick |-> onClick]

showsParentRowAlways(cur) == TRUE

showsParentRow(cur) == cur # ROOT

updateListView(ef, cur, data, listed) ==
    LET parentRow == IF showsParentRow(cur)
                     THEN <<listRow(DOTS, "folder", FALSE, "parent")>>
                     ELSE <<>>
        itemRows == [i \in DOMAIN data |->
                        listRow(data[i].name, data[i].type,
                                data[i].type = "folder" /\ has(ef, buildPath(data[i].name, cur)),
                                IF data[i].type = "folder" THEN "folder" ELSE "none")]
    IN  [listed |-> listed, rows |-> parentRow \o itemRows]

updateListViewExpansion(ef, cur, list) ==
    [list EXCEPT !.rows =
        [i \in DOMAIN list.rows |->
            IF list.rows[i].icon = "folder"
            THEN [list.rows[i] EXCEPT !.open = has(ef, buildPath(list.rows[i].name, cur))]
            ELSE list.rows[i]] \o <<>>]

keepSelected(tree) == tree

\* querySelectorAll('.tree-item.selected').forEach(item => item.classList.remove('selected'))
clearSelected(tree) ==
    [r \in DOMAIN tree |-> [tree[r] EXCEPT !.selected = FALSE]] @@ <<>>

updateSelectionTree(tree, path) ==
    LET cleared == clearSelected(tree)
        q == querySelector(cleared, path)
    IN  IF q = NoNode THEN cleared ELSE [cleared EXCEPT ![q].selected = TRUE]

updateSelectionList(list, path) ==
    LET fileName == lastSegment(path)
    IN  [list EXCEPT !.rows =
            [i \in DOMAIN list.rows |->
                [list.rows[i] EXCEPT !.selected = (list.rows[i].name = fileName)]] \o <<>>]

\* ------------------------------------------------------------ operations
Slots == 1..MaxPending

Idle == [kind |-> "idle"]

\* The locals of one call of init, handleFolderSelect or toggleFolderExpansion
\* (with those of the expandTreeToPath and toggleFolderExpansion it is in)
newOp(kind, path, source, handler, previousPath) ==
    [kind |-> kind, path |-> path, source |-> source, handler |-> handler,
     previousPath |-> previousPath, isSamePath |-> (previousPath = path),
     wait |-> "none", ret |-> "none", i |-> 0, ep |-> EMPTY, tpath |-> EMPTY,
     isCurrentlyExpanded |-> FALSE, shouldExpand |-> FALSE,
     container |-> NoNode, detached |-> FALSE, outcome |-> "pending",
     requests |-> <<>>, error |-> "none", trace |-> <<>>]

\* The promise of operation k settles
finish(S, k, outcome) ==
    [S EXCEPT !.done = [S.ops[k] EXCEPT !.outcome = outcome, !.wait = "none"],
              !.ops[k] = Idle]

\* data.forEach is not a function: the endpoint answered with an error object
throws(S, k) == [finish(S, k, "threw") EXCEPT !.failed = TRUE]

\* The steps of an operation in the order in which it takes them
log(S, k, step) == [S EXCEPT !.ops[k].trace = Append(@, step)]

requested(wait) ==
    CASE wait = "list" -> "fetch list"
      [] wait = "tree" -> "fetch tree"
      [] OTHER -> "fetch init"

\* await fetchFolderContents(path): the request is sent and the operation suspends
request(S, k, wait, path) ==
    log([S EXCEPT !.ops[k].wait = wait, !.ops[k].requests = Append(@, path)],
        k, requested(wait))

rejectsAndRetries(S, k, err) ==
    request(S, k, S.ops[k].wait, S.ops[k].requests[Len(S.ops[k].requests)])

\* fetch rejects: no function on the way up catches, the promise of the
\* operation rejects with the error of fetch
rejects(S, k, err) ==
    [finish(S, k, "rejected") EXCEPT !.done.error = err, !.failed = TRUE]

\* The elements under q leave the document: a child container an operation
\* still holds is no longer part of the tree view
detach(S, q) ==
    [S EXCEPT !.ops = [k \in Slots |->
        IF S.ops[k].kind # "idle" /\ S.ops[k].wait = "tree" /\ IsUnder(S.ops[k].container, q)
        THEN [S.ops[k] EXCEPT !.detached = TRUE]
        ELSE S.ops[k]] \o <<>>]

withListExpansion(S) ==
    [S EXCEPT !.list = updateListViewExpansion(S.ef, S.cur, S.list)]

updateSelection(S, k) ==
    finish(log([S EXCEPT !.tree = updateSelectionTree(S.tree, S.ops[k].path),
                         !.list = updateSelectionList(S.list, S.ops[k].path)],
               k, "select"), k, "ok")

neverCollapsesNothing(path) == FALSE

\* if (path === '/') return
neverCollapses(path) == path = ROOT

shouldExpandAlways(forceState, isCurrentlyExpanded) == TRUE

shouldExpandOf(forceState, isCurrentlyExpanded) ==
    IF forceState # "undefined" THEN forceState = "true" ELSE ~isCurrentlyExpanded

togglesAlways(source, isSamePath) == TRUE

\* if (source === 'tree' || isSamePath)
togglesAfterSelect(source, isSamePath) == source = "tree" \/ isSamePath

expandForceStateNone == "undefined"

\* toggleFolderExpansion(state, currentPath, true)
expandForceState == "true"

fetchesChildrenWhenExpanded(shouldExpand, childContainer, children) ==
    shouldExpand /\ childContainer

\* if (shouldExpand && childContainer && childContainer.children.length === 0)
fetchesChildren(shouldExpand, childContainer, children) ==
    shouldExpand /\ childContainer /\ children = {}

RECURSIVE toggleFolderExpansion(_, _, _, _, _)
RECURSIVE expandTreeToPath(_, _)
RECURSIVE returnTo(_, _)

\* The code after the await of toggleFolderExpansion in its caller
returnTo(S, k) ==
    CASE S.ops[k].ret = "expand" -> expandTreeToPath(S, k)
      [] S.ops[k].ret = "final" -> updateSelection(S, k)
      [] OTHER -> finish(S, k, "ok")

\* toggleFolderExpansion up to its listing request, or to its end
toggleFolderExpansion(S, k, path, forceState, ret) ==
    IF neverCollapses(path) THEN returnTo([S EXCEPT !.ops[k].ret = ret], k)
    ELSE
    LET isCurrentlyExpanded == has(S.ef, path)
        shouldExpand == shouldExpandOf(forceState, isCurrentlyExpanded)
        ef1 == IF shouldExpand THEN add(S.ef, path) ELSE removeExpandedFolder(S.ef, path)
        S1 == log([S EXCEPT !.ef = ef1,
                            !.ops[k] = [@ EXCEPT !.ret = ret, !.tpath = path,
                                                 !.isCurrentlyExpanded = isCurrentlyExpanded,
                                                 !.shouldExpand = shouldExpand]],
                  k, "toggle")
        item == querySelector(S.tree, path)
    IN  IF item = NoNode THEN returnTo(withListExpansion(S1), k)
        ELSE
        LET childContainer == S.tree[item].type = "folder"
            icon == S.tree[item].type = "folder"
            S2 == [S1 EXCEPT !.tree[item].open = shouldExpand,
                             !.tree[item].iconOpen = IF icon THEN shouldExpand ELSE @]
        IN  IF fetchesChildren(shouldExpand, childContainer, childrenOf(S2.tree, item))
            THEN request([S2 EXCEPT !.ops[k].container = item,
                                    !.ops[k].detached = FALSE], k, "tree", path)
            ELSE IF ~shouldExpand /\ childContainer
            THEN returnTo(withListExpansion(
                    [detach(S2, item) EXCEPT !.tree = clearChildren(S2.tree, item)]), k)
            ELSE returnTo(withListExpansion(S2), k)

\* The listing of the children arrives: the rest of toggleFolderExpansion
toggleFolderExpansionResume(S, k) ==
    LET op == S.ops[k]
        children == fetchFolderContents(op.tpath)
        S0 == log(S, k, "response tree")
    IN  IF ~children.ok THEN throws(S0, k)
        ELSE
        LET level == Len(filterBoolean(split(op.tpath)))
            tree1 == IF op.detached THEN S.tree
                     ELSE updateTreeView(S.tree, children.data, op.container, level, op.tpath)
        IN  returnTo(withListExpansion(log([S0 EXCEPT !.tree = tree1], k, "tree")), k)

\* handleFolderSelect from its second conditional on
afterExpandTreeToPath(S, k) ==
    IF togglesAfterSelect(S.ops[k].source, S.ops[k].isSamePath)
    THEN toggleFolderExpansion(S, k, S.ops[k].path, "undefined", "final")
    ELSE updateSelection(S, k)

\* One round of the loop of expandTreeToPath, or the code after the loop
expandTreeToPath(S, k) ==
    LET op == S.ops[k]
        pathParts == filterBoolean(split(op.path))
    IN  IF op.i < Len(pathParts)
        THEN LET ep == buildPath(pathParts[op.i + 1], op.ep)
             IN  toggleFolderExpansion([S EXCEPT !.ops[k].i = op.i + 1, !.ops[k].ep = ep],
                                       k, ep, expandForceState, "expand")
        ELSE afterExpandTreeToPath(S, k)

afterListView(S, k) ==
    IF S.ops[k].source = "list" THEN expandTreeToPath(S, k)
    ELSE afterExpandTreeToPath(S, k)

\* handleFolderSelect up to its first listing request, or to its end
handleFolderSelectFetchFirst(S, k, path, source, handler) ==
    LET op == newOp("select", path, source, handler, S.cur)
        S1 == [S EXCEPT !.ops[k] = op]
    IN  IF source = "tree" \/ ~op.isSamePath
        THEN log([request(S1, k, "list", path) EXCEPT !.cur = path], k, "path")
        ELSE afterListView(log([S1 EXCEPT !.cur = path], k, "path"), k)

handleFolderSelect(S, k, path, source, handler) ==
    LET op == newOp("select", path, source, handler, S.cur)
        S1 == log([S EXCEPT !.cur = path, !.ops[k] = op], k, "path")
    IN  IF source = "tree" \/ ~op.isSamePath
        THEN request(S1, k, "list", path)
        ELSE afterListView(S1, k)

\* The listing for the list view arrives: the rest of handleFolderSelect
handleFolderSelectResume(S, k) ==
    LET op == S.ops[k]
        data == fetchFolderContents(op.path)
        S0 == log(S, k, "response list")
    IN  IF ~data.ok THEN throws(S0, k)
        ELSE afterListView(
                log([S0 EXCEPT !.list = updateListView(S.ef, S.cur, data.data, op.path)],
                    k, "list"), k)

\* init after its listing request
initResume(S, k) ==
    LET data == fetchFolderContents(ROOT)
        S0 == log(S, k, "response init")
    IN  IF ~data.ok
        THEN throws([detach(S0, NoNode) EXCEPT   \* the root item is built before data.forEach
                        !.tree = updateTreeView(S.tree, <<>>, NoNode, 0, EMPTY)], k)
        ELSE finish(log(log([detach(S0, NoNode) EXCEPT
                        !.tree = updateTreeView(S.tree, data.data, NoNode, 0, EMPTY),
                        !.list = updateListView(S.ef, S.cur, data.data, ROOT)],
                        k, "tree"), k, "list"), k, "ok")

\* --------------------------------------------------------------- actions
State ==
    [ef |-> expandedFolders, cur |-> currentPath, tree |-> treeView,
     list |-> listView, ops |-> ops, done |-> done, failed |-> failed]

Becomes(S) ==
    /\ expandedFolders' = S.ef
    /\ currentPath' = S.cur
    /\ treeView' = S.tree
    /\ listView' = S.list
    /\ ops' = S.ops
    /\ done' = S.done
    /\ failed' = S.failed

Quiescent == \A k \in Slots : ops[k].kind = "idle"

Rendered == DOMAIN treeView # {}

FreeSlots == {k \in Slots : ops[k].kind = "idle"}

FreeSlot == CHOOSE k \in FreeSlots : \A j \in FreeSlots : k <= j

NoOp == [kind |-> "none"]

NoCall == [called |-> FALSE]

NoInstances == [heap |-> <<>>, explorers |-> <<>>, actor |-> 0]

\* The explorer as createFileExplorer returns it
Constructed ==
    /\ expandedFolders = createInitialState.ef
    /\ currentPath = createInitialState.cur
    /\ treeView = <<>>
    /\ listView = [listed |-> EMPTY, rows |-> <<>>]
    /\ ops = [k \in Slots |-> Idle]
    /\ done = NoOp
    /\ failed = FALSE
    /\ clicks = 0
    /\ rejections = <<>>
    /\ instances = NoInstances

Init ==
    /\ Constructed
    /\ arg = NoCall
    /\ result = NoCall

\* explorer.init() on DOMContentLoaded
InitCall ==
    /\ ~Rendered
    /\ Quiescent
    /\ ops' = [ops EXCEPT ![FreeSlot] = [newOp("init", ROOT, "none", "none", currentPath)
                                            EXCEPT !.wait = "init", !.requests = <<ROOT>>,
                                                   !.trace = <<requested("init")>>]]
    /\ UNCHANGED <<expandedFolders, currentPath, treeView, listView, done, failed, clicks>>
    /\ UNCHANGED aux

\* A click on the content of a folder item of the tree
TreeClickOn ==
    /\ FreeSlots # {}
    /\ \E q \in DOMAIN treeView :
        /\ treeView[q].type = "folder"
        /\ Becomes(handleFolderSelect(State, FreeSlot, treeView[q].path, "tree",
                                      IF treeView[q].path = ROOT THEN "root" ELSE "item"))

\* The path a row's handler selects at the time of the click
rowTarget(row, cur) ==
    IF row.onClick = "parent" THEN getParentPath(cur) ELSE buildPath(row.name, cur)

\* A click on a row of the list that has a handler
ListClickOn ==
    /\ FreeSlots # {}
    /\ \E r \in DOMAIN listView.rows :
        /\ listView.rows[r].onClick # "none"
        /\ Becomes(handleFolderSelect(State, FreeSlot,
                                      rowTarget(listView.rows[r], currentPath),
                                      "list", listView.rows[r].onClick))

\* The response to the listing request of a suspended operation arrives
Respond ==
    \E k \in Slots :
        /\ ops[k].kind # "idle"
        /\ UNCHANGED clicks
        /\ UNCHANGED aux
        /\ Becomes(CASE ops[k].wait = "init" -> initResume(State, k)
                     [] ops[k].wait = "list" -> handleFolderSelectResume(State, k)
                     [] OTHER -> toggleFolderExpansionResume(State, k))

\* Clicks at any time, also while earlier operations are suspended
TreeClick == clicks < MaxClicks /\ clicks' = clicks + 1 /\ TreeClickOn /\ UNCHANGED aux

ListClick == clicks < MaxClicks /\ clicks' = clicks + 1 /\ ListClickOn /\ UNCHANGED aux

Next == InitCall \/ TreeClick \/ ListClick \/ Respond

Spec == Init /\ [][Next]_vars

\* Clicks processed one at a time: a click waits for the operation before it
TreeClickSeq == Quiescent /\ UNCHANGED clicks /\ TreeClickOn /\ UNCHANGED aux

ListClickSeq == Quiescent /\ UNCHANGED clicks /\ ListClickOn /\ UNCHANGED aux

NextSeq == InitCall \/ TreeClickSeq \/ ListClickSeq \/ Respond

SpecSeq == Init /\ [][NextSeq]_vars

\* The network may reject a listing request instead of answering it; clicks
\* one at a time
Errors == {"Network error", "Failed to fetch"}

Reject ==
    \E k \in Slots, err \in Errors :
        /\ ops[k].kind # "idle"
        /\ Len(rejections) < MaxRejects
        /\ rejections' = Append(rejections, err)
        /\ UNCHANGED clicks
        /\ UNCHANGED calls
        /\ UNCHANGED instances
        /\ Becomes(rejects(State, k, err))

TreeClickErr == Quiescent /\ TreeClick

ListClickErr == Quiescent /\ ListClick

NextErr == InitCall \/ TreeClickErr \/ ListClickErr \/ Respond \/ Reject

SpecErr == Init /\ [][NextErr]_vars

\* createFileExplorer(treeViewId, listViewId) in a document that holds some
\* of the elements
Ids == {"treeView", "fileList", "nonexistent"}

null == "null"

\* No state record
NoState == [created |-> FALSE]

getElementById(document, id) == IF id \in document THEN id ELSE null

elementsMissingBoth(treeViewEl, listViewEl) == treeViewEl = null /\ listViewEl = null

elementsMissing(treeViewEl, listViewEl) == treeViewEl = null \/ listViewEl = null

createFileExplorer(document, treeViewId, listViewId) ==
    LET treeViewEl == getElementById(document, treeViewId)
        listViewEl == getElementById(document, listViewId)
    IN  IF elementsMissing(treeViewEl, listViewEl)
        THEN [threw |-> TRUE, error |-> "Required DOM elements not found",
              state |-> NoState, requests |-> <<>>]
        ELSE [threw |-> FALSE, error |-> "none",
              state |-> createInitialState, requests |-> <<>>]

InitCreate ==
    /\ Constructed
    /\ arg \in [document : SUBSET Ids, treeViewId : Ids, listViewId : Ids]
    /\ result = NoCall

CreateCall ==
    /\ result = NoCall
    /\ result' = createFileExplorer(arg.document, arg.treeViewId, arg.listViewId)
    /\ UNCHANGED arg
    /\ UNCHANGED explorer

NextCreate == CreateCall

SpecCreate == InitCreate /\ [][NextCreate]_vars

\* Several explorers: each state record and each Set is an object of the
\* heap, reached through the reference the explorer or the record holds
createInitialStateSharedSet(heap) ==
    IF heap = <<>>
    THEN <<[entries |-> createInitialState.ef],
           [expandedFolders |-> 1, currentPath |-> createInitialState.cur]>>
    ELSE Append(heap, [expandedFolders |-> 1, currentPath |-> createInitialState.cur])

\* ({ expandedFolders: new Set(['/']), currentPath: '/', ... })
createInitialStateOn(heap) ==
    LET withSet == Append(heap, [entries |-> createInitialState.ef])
    IN  Append(withSet, [expandedFolders |-> Len(withSet),
                         currentPath |-> createInitialState.cur])

\* What handleFolderSelect(state, path, 'tree') writes through state
selectWrites(heap, state, path) ==
    LET set == heap[state].expandedFolders
        ef == heap[set].entries
        selected == [heap EXCEPT ![state].currentPath = path]
    IN  IF neverCollapses(path) THEN selected
        ELSE [selected EXCEPT ![set].entries =
                IF shouldExpandOf("undefined", has(ef, path))
                THEN add(ef, path)
                ELSE removeExpandedFolder(ef, path)]

InstancePaths == {ROOT, PathA, PathAA}

InitInstances ==
    /\ Constructed
    /\ arg = NoCall
    /\ result = NoCall

\* createFileExplorer('treeView', 'fileList') once more
NewExplorer ==
    /\ Len(instances.explorers) < MaxInstances
    /\ LET heap == createInitialStateOn(instances.heap)
       IN  instances' = [heap |-> heap,
                         explorers |-> Append(instances.explorers, Len(heap)),
                         actor |-> Len(instances.explorers) + 1]
    /\ UNCHANGED <<expandedFolders, currentPath, treeView, listView, ops, done, failed,
                   clicks, rejections, arg, result>>

\* explorer.state.currentPath = path
AssignCurrentPath ==
    /\ \E i \in DOMAIN instances.explorers, path \in InstancePaths :
        instances' = [instances EXCEPT !.heap[instances.explorers[i]].currentPath = path,
                                       !.actor = i]
    /\ UNCHANGED <<expandedFolders, currentPath, treeView, listView, ops, done, failed,
                   clicks, rejections, arg, result>>

\* A click on a tree item that explorer i rendered
InstanceClick ==
    /\ \E i \in DOMAIN instances.explorers, path \in InstancePaths :
        instances' = [instances EXCEPT
                        !.heap = selectWrites(@, instances.explorers[i], path),
                        !.actor = i]
    /\ UNCHANGED <<expandedFolders, currentPath, treeView, listView, ops, done, failed,
                   clicks, rejections, arg, result>>

NextInstances == NewExplorer \/ AssignCurrentPath \/ InstanceClick

SpecInstances == InitInstances /\ [][NextInstances]_vars

\* ------------------------------------------------- the listing endpoint
\* The server's disk: the project directory /p, which holds the served
\* directory, and a directory /p2 next to it
dirname == <<"/", "p">>

Dir(names, mtime) == [isDirectory |-> TRUE, names |-> names, mtime |-> mtime, size |-> 64]

RegularFile(mtime, size) == [isDirectory |-> FALSE, names |-> <<>>, mtime |-> mtime, size |-> size]

Disk ==
    <<"/">> :> Dir(<<<<"p">>, <<"p", "2">>>>, 1)
    @@ <<"/", "p">> :> Dir(<<<<"a">>, <<"a", "2">>, <<"f">>>>, 2)
    @@ <<"/", "p", "/", "a">> :> Dir(<<<<"a">>, <<"f">>>>, 3)
    @@ <<"/", "p", "/", "a", "/", "a">> :> Dir(<<>>, 4)
    @@ <<"/", "p", "/", "a", "/", "f">> :> RegularFile(5, 100)
    @@ <<"/", "p", "/", "a", "2">> :> Dir(<<>>, 6)
    @@ <<"/", "p", "/", "f">> :> RegularFile(7, 0)
    @@ <<"/", "p", "2">> :> Dir(<<<<"s">>>>, 8)
    @@ <<"/", "p", "2", "/", "s">> :> RegularFile(9, 2048)

RECURSIVE normalize(_, _)
\* path.normalize: '.' and empty segments go, '..' takes the segment before it
normalize(segments, kept) ==
    IF segments = <<>> THEN kept
    ELSE LET s == Head(segments)
         IN  IF s = <<>> \/ s = <<".">> THEN normalize(Tail(segments), kept)
             ELSE IF s = <<".", ".">>
             THEN normalize(Tail(segments), SubSeq(kept, 1, Len(kept) - 1))
             ELSE normalize(Tail(segments), Append(kept, s))

\* path.join(a, b) of an absolute a
pathJoin(a, b) == <<"/">> \o join(normalize(split(a \o <<"/">> \o b), <<>>))

\* Is full the directory dir or below it
IsWithin(full, dir) == full = dir \/ startsWith(full, dir \o <<"/">>)

\* fs.stat(path) where the stat of the paths in statFails fails
stat(path, statFails) ==
    IF path \in DOMAIN Disk /\ path \notin statFails
    THEN [ok |-> TRUE, stats |-> Disk[path]]
    ELSE [ok |-> FALSE]

status(code, body) == [status |-> code, body |-> body]

itemTypeFile(isDirectory) == "file"

\* itemStats.isDirectory() ? 'folder' : 'file'
itemType(isDirectory) == IF isDirectory THEN "folder" ELSE "file"

\* The object of one child; JSON leaves out the undefined children of a file
fileItem(name, itemStats) ==
    IF itemStats.isDirectory
    THEN [type |-> itemType(TRUE), name |-> name, modified |-> itemStats.mtime,
          size |-> itemStats.size, children |-> <<>>]
    ELSE [type |-> itemType(FALSE), name |-> name, modified |-> itemStats.mtime,
          size |-> itemStats.size]

promiseAllSettled(results) ==
    LET fulfilled == SelectSeq(results, LAMBDA r : r.ok)
    IN  [ok |-> TRUE, value |-> [i \in DOMAIN fulfilled |-> fulfilled[i].value] \o <<>>]

\* Promise.all: rejects when one of the promises rejects
promiseAll(results) ==
    IF \E i \in DOMAIN results : ~results[i].ok THEN [ok |-> FALSE]
    ELSE [ok |-> TRUE, value |-> [i \in DOMAIN results |-> results[i].value] \o <<>>]

internalServerError == status(500, "Internal server error")

\* app.get('/api/files/*'): the responses sent and the calls of fs made
listFiles(requestedPath, statFails, readdirFails) ==
    LET fullPath == pathJoin(dirname, requestedPath)
        statFull == <<[call |-> "stat", path |-> fullPath]>>
        stats == stat(fullPath, statFails)
    IN  IF ~startsWith(fullPath, dirname)
        THEN [responses |-> <<status(403, "Access denied")>>, reads |-> <<>>]
        ELSE IF ~stats.ok
        THEN [responses |-> <<internalServerError>>, reads |-> statFull]
        ELSE IF ~stats.stats.isDirectory
        THEN [responses |-> <<status(400, "Not a directory")>>, reads |-> statFull]
        ELSE IF readdirFails
        THEN [responses |-> <<internalServerError>>,
              reads |-> statFull \o <<[call |-> "readdir", path |-> fullPath]>>]
        ELSE
        LET contents == stats.stats.names
            itemPath(i) == pathJoin(fullPath, contents[i])
            results == [i \in DOMAIN contents |->
                          LET itemStats == stat(itemPath(i), statFails)
                          IN  IF itemStats.ok
                              THEN [ok |-> TRUE, value |-> fileItem(contents[i], itemStats.stats)]
                              ELSE [ok |-> FALSE]] \o <<>>
            items == promiseAll(results)
            reads == statFull \o <<[call |-> "readdir", path |-> fullPath]>>
                        \o ([i \in DOMAIN contents |-> [call |-> "stat", path |-> itemPath(i)]]
                                \o <<>>)
        IN  IF items.ok
            THEN [responses |-> <<status(200, items.value)>>, reads |-> reads]
            ELSE [responses |-> <<internalServerError>>, reads |-> reads]

RequestSegments == {<<"a">>, <<"f">>, <<".", ".">>, <<"p", "2">>}

RECURSIVE SegmentLists(_)
SegmentLists(n) ==
    IF n = 0 THEN {<<>>}
    ELSE LET shorter == SegmentLists(n - 1)
         IN  shorter \cup {Append(l, s) : l \in shorter, s \in RequestSegments}

\* req.params[0] of the requests
RequestedPaths == {join(l) : l \in SegmentLists(MaxSegments)}

InitServer ==
    /\ Constructed
    /\ arg \in [requestedPath : RequestedPaths,
                 statFails : {{}} \cup {{p} : p \in DOMAIN Disk},
                 readdirFails : BOOLEAN]
    /\ result = NoCall

ListFilesCall ==
    /\ result = NoCall
    /\ result' = listFiles(arg.requestedPath, arg.statFails, arg.readdirFails)
    /\ UNCHANGED arg
    /\ UNCHANGED explorer

NextServer == ListFilesCall

SpecServer == InitServer /\ [][NextServer]_vars

\* ------------------------------------------------- the path helpers
RECURSIVE Strings(_, _)
\* The strings of up to n characters of an alphabet
Strings(alphabet, n) ==
    IF n = 0 THEN {<<>>}
    ELSE LET shorter == Strings(alphabet, n - 1)
         IN  shorter \cup {Append(s, c) : s \in shorter, c \in alphabet}

InitPaths ==
    /\ Constructed
    /\ arg \in [name : Strings({"a", "."}, MaxNameLen),
                 parentPath : Strings({"/", "a"}, MaxPathLen)]
    /\ result = NoCall

BuildPathCall ==
    /\ result = NoCall
    /\ result' = [called |-> TRUE, value |-> buildPath(arg.name, arg.parentPath)]
    /\ UNCHANGED arg
    /\ UNCHANGED explorer

NextPaths == BuildPathCall

SpecPaths == InitPaths /\ [][NextPaths]_vars

InitParentPath ==
    /\ Constructed
    /\ arg \in [path : Strings({"/", "a", "b"}, MaxInputLen)]
    /\ result = NoCall

GetParentPathCall ==
    /\ result = NoCall
    /\ result' = [called |-> TRUE, value |-> getParentPath(arg.path)]
    /\ UNCHANGED arg
    /\ UNCHANGED explorer

NextParentPath == GetParentPathCall

SpecParentPath == InitParentPath /\ [][NextParentPath]_vars

\* ------------------------------------------------------------ formatSize
\* A size is the sequence of its digits to the base 1024, the most
\* significant first and not 0 unless the size is 0: 1024 is <<1, 0>>.  The
\* quotients by powers of 1024 are exact for sizes below 2^53, and the
\* quotient of the logarithms is the whole number k at 1024^k.
units == <<"B", "KB", "MB", "GB">>

RECURSIVE valueOf(_)
\* The number a few digits stand for
valueOf(digits) ==
    IF digits = <<>> THEN 0
    ELSE valueOf(SubSeq(digits, 1, Len(digits) - 1)) * 1024 + digits[Len(digits)]

unitIndexUncapped(digits) == IF digits = <<0>> THEN 0 ELSE Len(digits) - 1

\* size === 0 ? 0 : Math.min(Math.floor(Math.log(size) / Math.log(1024)), units.length - 1)
unitIndex(digits) ==
    IF digits = <<0>> THEN 0
    ELSE IF Len(digits) - 1 < Len(units) - 1 THEN Len(digits) - 1 ELSE Len(units) - 1

RECURSIVE tenthsBelow(_)
\* Ten times the fraction that the digits stand for, rounded down
tenthsBelow(digits) ==
    IF digits = <<>> THEN 0
    ELSE (10 * Head(digits) + tenthsBelow(Tail(digits))) \div 1024

\* x.toFixed(fractionDigits) of the quotient high + low / 1024^Len(low):
\* the nearest number with that many decimals, the larger of two
toFixed(high, low, fractionDigits) ==
    IF fractionDigits = 0
    THEN [whole |-> high + (IF low # <<>> /\ Head(low) >= 512 THEN 1 ELSE 0),
          decimals |-> <<>>]
    ELSE LET tenths == IF low = <<>> THEN 0
                       ELSE (10 * Head(low) + 512 + tenthsBelow(Tail(low))) \div 1024
         IN  [whole |-> high + (tenths \div 10), decimals |-> <<tenths % 10>>]

formatSize(digits) ==
    LET index == unitIndex(digits)
        high == valueOf(SubSeq(digits, 1, Len(digits) - index))
        low == SubSeq(digits, Len(digits) - index + 1, Len(digits))
        number == toFixed(high, low, IF index # 0 THEN 1 ELSE 0)
    IN  [whole |-> number.whole, decimals |-> number.decimals,
         unit |-> IF index + 1 \in DOMAIN units THEN units[index + 1] ELSE "undefined"]

Digits == {0, 1, 256, 1023}

RECURSIVE Sizes(_)
\* The sizes of up to n digits
Sizes(n) ==
    IF n = 0 THEN {}
    ELSE IF n = 1 THEN {<<d>> : d \in Digits}
    ELSE Sizes(n - 1) \cup
         {Append(s, d) : s \in {t \in Sizes(n - 1) : Len(t) = n - 1 /\ t[1] # 0}, d \in Digits}

InitFormatSize ==
    /\ Constructed
    /\ arg \in [size : Sizes(MaxDigits)]
    /\ result = NoCall

FormatSizeCall ==
    /\ result = NoCall
    /\ result' = [called |-> TRUE, value |-> formatSize(arg.size)]
    /\ UNCHANGED arg
    /\ UNCHANGED explorer

NextFormatSize == FormatSizeCall

SpecFormatSize == InitFormatSize /\ [][NextFormatSize]_vars

\* Direct calls of toggleFolderExpansion and removeExpandedFolder, one at a
\* time, on an arbitrary expandedFolders, before and after the first render
Universe == {ROOT, PathA, PathAA, PathA2, PathO}

Contents ==
    {ef \in UNION {[1..n -> Universe] : n \in 0..MaxSetLen} :
        \A i, j \in DOMAIN ef : ef[i] = ef[j] => i = j}

InitSet ==
    /\ expandedFolders \in Contents
    /\ currentPath = createInitialState.cur
    /\ \E rendered \in BOOLEAN :
        /\ treeView = IF rendered
                      THEN updateTreeView(<<>>, readdir(ROOT), NoNode, 0, EMPTY)
                      ELSE <<>>
        /\ listView = IF rendered
                      THEN updateListView(expandedFolders, currentPath, readdir(ROOT), ROOT)
                      ELSE [listed |-> EMPTY, rows |-> <<>>]
    /\ ops = [k \in Slots |-> Idle]
    /\ done = NoOp
    /\ failed = FALSE
    /\ clicks = 0
    /\ rejections = <<>>
    /\ instances = NoInstances
    /\ arg = NoCall
    /\ result = NoCall

\* await toggleFolderExpansion(state, path)
ToggleCall ==
    /\ Quiescent
    /\ UNCHANGED clicks
    /\ UNCHANGED aux
    /\ \E path \in Universe :
        Becomes(toggleFolderExpansion(
                    [State EXCEPT !.ops[FreeSlot] = newOp("toggle", path, "none", "none", currentPath)],
                    FreeSlot, path, "undefined", "call"))

\* removeExpandedFolder(state, path)
RemoveCall ==
    /\ Quiescent
    /\ \E path \in Universe :
        /\ expandedFolders' = removeExpandedFolder(expandedFolders, path)
        /\ done' = [newOp("remove", path, "none", "none", currentPath) EXCEPT !.outcome = "ok"]
    /\ UNCHANGED <<currentPath, treeView, listView, ops, failed, clicks>>
    /\ UNCHANGED aux

NextSet == ToggleCall \/ RemoveCall \/ Respond

SpecSet == InitSet /\ [][NextSet]_vars

\* ---------------------------------------------------------------- claims
Names(data) == [i \in DOMAIN data |-> data[i].name]

ItemRows(list) == SelectSeq(list.rows, LAMBDA row : row.onClick # "parent")

\* The rows are the entries the endpoint returns for path
ListShows(path) ==
    /\ listView.listed = path
    /\ path \in Dirs
    /\ Names(ItemRows(listView)) = Names(readdir(path))

IsOp(op, handler) == op.kind \notin {"idle", "none"} /\ op.handler = handler

Selected(path) == done.kind = "select" /\ done.outcome = "ok" /\ done.path = path

\* C1: once every operation has completed, the list view shows the listing
\* of state.currentPath, whatever the order the responses arrived in.
C1_ListShowsCurrentPath ==
    (Quiescent /\ Rendered) => ListShows(currentPath)

OpenIffExpanded ==
    \A q \in DOMAIN treeView :
        treeView[q].open <=> has(expandedFolders, treeView[q].path)

ChildPaths(q) ==
    [i \in 1..Cardinality(childrenOf(treeView, q)) |-> treeView[q \o <<i>>].path]

ToggledByTreeClick ==
    LET P == done.path
        q == querySelector(treeView, P)
    IN  IF ~done.isCurrentlyExpanded
        THEN /\ has(expandedFolders, P)
             /\ q # NoNode
             /\ treeView[q].open
             /\ ChildPaths(q) = [i \in DOMAIN readdir(P) |-> buildPath(readdir(P)[i].name, P)]
        ELSE /\ \A i \in DOMAIN expandedFolders :
                    /\ expandedFolders[i] # P
                    /\ ~startsWith(expandedFolders[i], P \o <<"/">>)
             /\ q # NoNode
             /\ ~treeView[q].open
             /\ childrenOf(treeView, q) = {}

\* C2: with clicks processed one at a time, a tree click on a folder other
\* than '/' toggles it (absent: added, marked open, children rendered;
\* present: removed with every descendant, open mark and children cleared),
\* and a tree item is marked open exactly if its path is in expandedFolders.
C2_TreeClickToggles ==
    Quiescent =>
        /\ OpenIffExpanded
        /\ (IsOp(done, "item") /\ done.outcome = "ok") => ToggledByTreeClick

C2_Witness ==
    /\ Quiescent
    /\ IsOp(done, "item")
    /\ done.isCurrentlyExpanded
    /\ done.path = PathA
    /\ has(expandedFolders, PathA2)

ToggleFlipped ==
    (Quiescent /\ done.kind = "toggle" /\ done.path # ROOT)
        => (has(expandedFolders, done.path) <=> ~done.isCurrentlyExpanded)

SecondToggleRestores ==
    (/\ done.kind = "toggle"
     /\ done'.kind = "toggle"
     /\ done' # done
     /\ done'.path = done.path
     /\ done.path # ROOT
     /\ ~done.isCurrentlyExpanded)
        => ~has(expandedFolders', done.path)

\* C3: toggleFolderExpansion(P) without forceState, P not the root, flips
\* the membership of P in expandedFolders whatever the set holds and whether
\* or not the tree has an item for P; a second toggle of a P that started
\* absent leaves it absent.
C3_ToggleFlipsMembership == []ToggleFlipped /\ [][SecondToggleRestores]_vars

C3_Witness ==
    /\ Quiescent
    /\ done.kind = "toggle"
    /\ done.path = PathA
    /\ done.isCurrentlyExpanded
    /\ Rendered
    /\ has(expandedFolders, PathA2)

Remaining(ef, P) ==
    SelectSeq(ef, LAMBDA e : ~(e = P \/ startsWith(e, P \o <<"/">>)))

RemovedExactly ==
    (Quiescent /\ Quiescent' /\ done'.kind = "remove")
        => expandedFolders' = Remaining(expandedFolders, done'.path)

\* C4: removeExpandedFolder(P) removes exactly P and the members that start
\* with P + '/', and leaves the others (such as '/a2' for P = '/a') as they
\* were, although it deletes from the set it iterates.
C4_RemoveExactlySubtree == [][RemovedExactly]_vars

C4_Witness ==
    /\ done.kind = "remove"
    /\ done.path = PathA
    /\ Quiescent
    /\ expandedFolders = <<PathA2, PathO>>

RootClicked ==
    \A k \in Slots :
        (ops[k].kind = "idle" /\ IsOp(ops'[k], "root"))
            => /\ currentPath' = ROOT
               /\ ops'[k].wait = "list"
               /\ ops'[k].path = ROOT

RootExpanded ==
    /\ has(expandedFolders, ROOT)
    /\ \A q \in DOMAIN treeView : treeView[q].path = ROOT => treeView[q].open
    /\ (done = NoOp /\ Quiescent) => (currentPath = ROOT /\ expandedFolders = <<ROOT>>)

\* C5: the explorer starts at '/' with '/' expanded, '/' stays in
\* expandedFolders in every reachable state, and a click on the root sets
\* currentPath to '/' and requests its listing without collapsing it.
C5_RootAlwaysExpanded == []RootExpanded /\ [][RootClicked]_vars

C5_Witness ==
    /\ IsOp(done, "root")
    /\ done.outcome = "ok"
    /\ Quiescent
    /\ Len(expandedFolders) > 1

\* C6: when every listing request succeeded and every operation has
\* completed, the '...' row is in the list, as its first row, exactly if
\* currentPath is not '/'.
C6_ParentRowIffNotRoot ==
    (Quiescent /\ Rendered /\ ~failed) =>
        /\ currentPath # ROOT <=>
              (listView.rows # <<>> /\ listView.rows[1].onClick = "parent")
        /\ \A i \in DOMAIN listView.rows :
              i > 1 => listView.rows[i].onClick # "parent"

C6_Witness ==
    /\ Quiescent
    /\ ~failed
    /\ currentPath = ROOT
    /\ listView.listed = PathA
    /\ clicks >= 2

ParentRowActing ==
    \E k \in Slots : IsOp(ops[k], "parent") \/ IsOp(ops'[k], "parent")

NavigatedUp ==
    (Quiescent /\ IsOp(done, "parent") /\ done.outcome = "ok")
        => /\ currentPath = getParentPath(done.previousPath)
           /\ ListShows(currentPath)

NothingCollapsed ==
    ParentRowActing
        => \A i \in DOMAIN expandedFolders : has(expandedFolders', expandedFolders[i])

\* C7: a click on the '...' row, when it completes, has made currentPath the
\* parent of the previous currentPath, the list shows the parent's listing,
\* and it has removed nothing from expandedFolders.
C7_ParentRowNavigatesUp == []NavigatedUp /\ [][NothingCollapsed]_vars

C7_Witness ==
    /\ Quiescent
    /\ IsOp(done, "parent")
    /\ done.previousPath = PathAA
    /\ currentPath = PathA
    /\ has(expandedFolders, PathAA)

SelfAndAncestors(path) ==
    LET parts == filterBoolean(split(path))
    IN  {ROOT} \cup {<<"/">> \o join(SubSeq(parts, 1, n)) : n \in 1..Len(parts)}

\* C8: with clicks processed one at a time, a list click that selects a
\* folder P other than currentPath ends with currentPath = P and with P and
\* each of its ancestors in expandedFolders and shown by an open tree item.
C8_ListClickExpandsToPath ==
    (/\ Quiescent
     /\ done.kind = "select"
     /\ done.source = "list"
     /\ ~done.isSamePath
     /\ done.outcome = "ok")
        => /\ currentPath = done.path
           /\ \A A \in SelfAndAncestors(done.path) :
                /\ has(expandedFolders, A)
                /\ querySelector(treeView, A) # NoNode
                /\ treeView[querySelector(treeView, A)].open

C8_Witness ==
    /\ Quiescent
    /\ Selected(PathAA)
    /\ done.source = "list"
    /\ done.handler = "folder"

\* C9: with clicks processed one at a time, after a selection of P at most
\* one tree item is marked selected, and its path is P = currentPath.
C9_OneTreeItemSelected ==
    (Quiescent /\ done.kind = "select" /\ done.outcome = "ok")
        => /\ Cardinality({q \in DOMAIN treeView : treeView[q].selected}) <= 1
           /\ \A q \in DOMAIN treeView :
                treeView[q].selected => (treeView[q].path = done.path /\ done.path = currentPath)

C9_Witness ==
    /\ Quiescent
    /\ Selected(PathA2)
    /\ \E q \in DOMAIN treeView : treeView[q].selected
    /\ has(expandedFolders, PathAA)

\* C10: after a selection of P, a list row is marked selected only if its
\* name joined to the listed directory is P; a child of P with the name of
\* P's last segment is not marked selected.
C10_ListRowSelectedOnlyIfPath ==
    (Quiescent /\ done.kind = "select" /\ done.outcome = "ok")
        => \A i \in DOMAIN listView.rows :
              listView.rows[i].selected
                  => buildPath(listView.rows[i].name, listView.listed) = done.path

Rejected(k) ==
    /\ ops[k].kind # "idle"
    /\ ops'[k].kind = "idle"
    /\ done'.outcome = "rejected"
    /\ done'.kind = ops[k].kind
    /\ done'.error = rejections'[Len(rejections')]
    /\ done'.requests = ops[k].requests
    /\ \A j \in Slots \ {k} : ops'[j] = ops[j]
    /\ treeView' = treeView
    /\ listView' = listView

\* C11: when the listing request of init or of a folder selection rejects,
\* the operation rejects with that error, sends no further request (no
\* retry) and updates neither the tree view nor the list view afterwards.
C11_RejectionSurfaces ==
    [][Len(rejections') > Len(rejections) => \E k \in Slots : Rejected(k)]_vars

C11_Witness ==
    /\ done.kind = "select"
    /\ done.outcome = "rejected"
    /\ done.error = "Failed to fetch"
    /\ done.requests = <<PathA, PathA>>
    /\ Quiescent
    /\ \E q \in DOMAIN treeView : treeView[q].path = PathA /\ treeView[q].open

ElementMissing == arg.treeViewId \notin arg.document \/ arg.listViewId \notin arg.document

\* C12: createFileExplorer throws 'Required DOM elements not found' whenever
\* the tree-view element or the list-view element is not in the document, and
\* then it has created no state and sent no listing request.
C12_ThrowsOnMissingElement ==
    (result # NoCall /\ ElementMissing) =>
        /\ result.threw
        /\ result.error = "Required DOM elements not found"
        /\ result.state = NoState
        /\ result.requests = <<>>

C12_Witness ==
    /\ result # NoCall
    /\ arg.treeViewId \in arg.document
    /\ arg.listViewId \notin arg.document
    /\ result.threw

InitCompleted == Quiescent /\ done.kind = "init" /\ done.outcome = "ok"

RootPosition == <<1>>

Level1Positions == {RootPosition \o <<i>> : i \in DOMAIN readdir(ROOT)}

OneOpenRoot ==
    /\ {q \in DOMAIN treeView : treeView[q].level = 0 \/ treeView[q].path = ROOT}
            = {RootPosition}
    /\ treeView[RootPosition].open
    /\ treeView[RootPosition].iconOpen

OneNodePerEntry ==
    /\ DOMAIN treeView = {RootPosition} \cup Level1Positions
    /\ \A i \in DOMAIN readdir(ROOT) :
        LET node == treeView[RootPosition \o <<i>>]
        IN  /\ node.level = 1
            /\ node.path = buildPath(readdir(ROOT)[i].name, ROOT)
            /\ node.type = readdir(ROOT)[i].type

\* C13: once init has completed successfully the tree is one root node with
\* path '/', open and with an open folder icon, over one level-1 node per
\* entry of the listing of '/', and init has sent one request, for '/', from
\* which the list is rendered too.
C13_InitRendersRoot ==
    InitCompleted =>
        /\ OneOpenRoot
        /\ OneNodePerEntry
        /\ done.requests = <<ROOT>>
        /\ ListShows(ROOT)

C13_Witness ==
    /\ InitCompleted
    /\ Rendered
    /\ Cardinality(DOMAIN treeView) = 4

StateOf(inst, j) ==
    LET state == inst.heap[inst.explorers[j]]
    IN  [currentPath |-> state.currentPath,
         expandedFolders |-> inst.heap[state.expandedFolders].entries]

\* C14: a step that creates an explorer, assigns to one explorer's
\* currentPath or handles a click for one explorer leaves currentPath and
\* expandedFolders of every other explorer as they were.
C14_InstancesIndependent ==
    [][\A j \in DOMAIN instances.explorers :
            j # instances'.actor => StateOf(instances', j) = StateOf(instances, j)]_vars

C14_Witness ==
    /\ Len(instances.explorers) = 2
    /\ StateOf(instances, 1) = [currentPath |-> PathAA, expandedFolders |-> <<ROOT, PathA>>]
    /\ StateOf(instances, 2) = [currentPath |-> ROOT, expandedFolders |-> <<ROOT>>]

Operations == {ops[k] : k \in Slots} \cup {done}

\* The requests of an operation: init asks for '/' only, a click for the
\* path it selects and for ancestors of it
RequestsFollowClick(op) ==
    /\ op.kind = "init" => op.requests = <<ROOT>>
    /\ op.kind = "select" =>
        \A n \in DOMAIN op.requests :
            op.requests[n] # ROOT => op.requests[n] \in SelfAndAncestors(op.path)

ChildrenRequested(k) ==
    /\ ops[k].kind # "idle"
    /\ ops'[k].kind # "idle"
    /\ ops'[k].wait = "tree"
    /\ Len(ops'[k].requests) = Len(ops[k].requests) + 1

ExpandedAndEmpty(k) ==
    LET P == ops'[k].requests[Len(ops'[k].requests)]
        item == ops'[k].container
    IN  /\ has(expandedFolders', P)
        /\ item \in DOMAIN treeView'
        /\ treeView'[item].path = P
        /\ treeView'[item].open
        /\ childrenOf(treeView', item) = {}

\* C15: init requests '/' only; a request for a path other than '/' belongs
\* to a click that selects that path or a descendant of it; and the children
\* of a tree item are requested only in a step that leaves the item's path
\* expanded and its child container empty.
C15_LazyTreeRequests ==
    /\ [](\A op \in Operations : op.kind \in {"init", "select"} => RequestsFollowClick(op))
    /\ [][\A k \in Slots : ChildrenRequested(k) => ExpandedAndEmpty(k)]_vars

C15_Witness ==
    /\ done.kind = "select"
    /\ done.source = "list"
    /\ done.outcome = "ok"
    /\ done.requests = <<PathAA, PathA, PathAA>>

TreeClickCompleted ==
    /\ done.kind = "select"
    /\ done.source = "tree"
    /\ done.outcome = "ok"
    /\ done.path # ROOT

\* The click found P collapsed and leaves it in expandedFolders with an open
\* tree item
ExpandedByClick ==
    /\ ~done.isCurrentlyExpanded
    /\ done.shouldExpand
    /\ has(expandedFolders, done.path)
    /\ querySelector(treeView, done.path) # NoNode
    /\ treeView[querySelector(treeView, done.path)].open

CollapsedByClick == done.isCurrentlyExpanded /\ ~done.shouldExpand

\* C16: a completed tree click that has expanded a collapsed folder P has
\* sent exactly two requests for P (list view, tree children), and one that
\* has collapsed P exactly one; so every expansion, a repeated one too,
\* requests the children again.
C16_NoListingCached ==
    TreeClickCompleted =>
        /\ ExpandedByClick => done.requests = <<done.path, done.path>>
        /\ CollapsedByClick => done.requests = <<done.path>>

Responded == result # NoCall

FullPath == pathJoin(dirname, arg.requestedPath)

Range(seq) == {seq[i] : i \in DOMAIN seq}

ChildNames(path) == IF path \in DOMAIN Disk THEN Disk[path].names ELSE <<>>

\* Every call of fs the request needs succeeds
NoCallFails ==
    /\ ~arg.readdirFails
    /\ arg.statFails \cap ({FullPath} \cup {pathJoin(FullPath, n) : n \in Range(ChildNames(FullPath))}) = {}

\* C17: for a directory within the project directory, where no call of fs
\* fails, the response is one item per name of the directory, in order, of
\* type 'folder' exactly for the directories, with the name, modification
\* time and size of the child, and a folder's children are the empty list.
C17_OneEntryPerChild ==
    (/\ Responded
     /\ IsWithin(FullPath, dirname)
     /\ FullPath \in DOMAIN Disk
     /\ Disk[FullPath].isDirectory
     /\ NoCallFails) =>
        LET names == Disk[FullPath].names
            response == result.responses[1]
        IN  /\ Len(result.responses) = 1
            /\ response.status = 200
            /\ Len(response.body) = Len(names)
            /\ \A i \in DOMAIN names :
                LET child == Disk[pathJoin(FullPath, names[i])]
                    entry == response.body[i]
                IN  /\ entry.name = names[i]
                    /\ entry.type = "folder" <=> child.isDirectory
                    /\ entry.type = "file" <=> ~child.isDirectory
                    /\ entry.modified = child.mtime
                    /\ entry.size = child.size
                    /\ child.isDirectory => entry.children = <<>>
                    /\ ~child.isDirectory => "children" \notin DOMAIN entry

C17_Witness ==
    /\ Responded
    /\ arg.requestedPath = <<"a">>
    /\ result.responses[1].status = 200
    /\ Len(result.responses[1].body) = 2
    /\ result.responses[1].body[1].type = "folder"
    /\ result.responses[1].body[2].type = "file"
    /\ result.responses[1].body[2].size = 100

\* C18: a request whose resolved path is neither the project directory nor
\* below it is answered 403 'Access denied' and makes no call of fs.
C18_OnlyProjectPaths ==
    (Responded /\ ~IsWithin(FullPath, dirname)) =>
        /\ result.responses = <<status(403, "Access denied")>>
        /\ result.reads = <<>>

PassedAccessCheck == startsWith(FullPath, dirname)

StatOfPathFails == FullPath \notin DOMAIN Disk \/ FullPath \in arg.statFails

IsFile == ~StatOfPathFails /\ ~Disk[FullPath].isDirectory

IsDir == ~StatOfPathFails /\ Disk[FullPath].isDirectory

StatOfChildFails ==
    \E n \in Range(ChildNames(FullPath)) : pathJoin(FullPath, n) \in arg.statFails

\* C19: every request gets exactly one response; past the access check it
\* is 400 'Not a directory' for a file, and 500 'Internal server error',
\* without any item of the listing, when stat of the path fails, when
\* readdir fails, or when stat of one of the children fails.
C19_OneResponse ==
    Responded =>
        /\ Len(result.responses) = 1
        /\ (PassedAccessCheck /\ IsFile) =>
                result.responses[1] = status(400, "Not a directory")
        /\ (PassedAccessCheck
            /\ (StatOfPathFails \/ (IsDir /\ (arg.readdirFails \/ StatOfChildFails)))) =>
                result.responses[1] = status(500, "Internal server error")

C19_Witness ==
    /\ Responded
    /\ arg.requestedPath = <<>>
    /\ ~arg.readdirFails
    /\ arg.statFails = {<<"/", "p", "/", "f">>}
    /\ result.responses = <<status(500, "Internal server error")>>
    /\ Len(result.reads) = 5

\* C20: buildPath(name, parent) is '/' + name for the parent '/' and
\* parent + '/' + name for every other parent, so for the empty parent what
\* it is for '/'; and buildPath('', '/') is '/'.
C20_BuildPath ==
    result.called =>
        /\ arg.parentPath = <<"/">> => result.value = <<"/">> \o arg.name
        /\ arg.parentPath # <<"/">> => result.value = arg.parentPath \o <<"/">> \o arg.name
        /\ arg.parentPath = <<>> => result.value = <<"/">> \o arg.name
        /\ (arg.name = <<>> /\ arg.parentPath = <<"/">>) => result.value = <<"/">>

C20_Witness ==
    /\ result.called
    /\ arg.parentPath = <<"/">>
    /\ arg.name = <<"a", ".">>
    /\ result.value = <<"/", "a", ".">>

\* The non-empty pieces of a path between its slashes
Segments(path) == filterBoolean(split(path))

OnlySlashes(path) == \A i \in DOMAIN path : path[i] = "/"

WellFormed(path) ==
    /\ path # <<>>
    /\ path[1] = "/"
    /\ \A i \in 1..(Len(path) - 1) : ~(path[i] = "/" /\ path[i + 1] = "/")
    /\ path = ROOT \/ path[Len(path)] # "/"

\* C21: getParentPath gives '/' for '/', for the empty path, for slashes
\* only and for one segment; for two or more segments it gives '/' and the
\* segments but the last, joined by '/'; the result starts with '/', has no
\* empty segment and, unless it is '/', no trailing slash.
C21_GetParentPath ==
    result.called =>
        LET segments == Segments(arg.path)
        IN  /\ (OnlySlashes(arg.path) \/ Len(segments) = 1) => result.value = ROOT
            /\ Len(segments) >= 2 =>
                    /\ Segments(result.value) = SubSeq(segments, 1, Len(segments) - 1)
                    /\ result.value # ROOT
            /\ WellFormed(result.value)

C21_Witness ==
    /\ result.called
    /\ arg.path = <<"/", "a", "/", "/", "b">>
    /\ result.value = <<"/", "a">>

\* size < 1024^k, for a size without leading zero digits
Below(size, k) == Len(size) <= k

\* C22: formatSize gives 'B' below 1024, 'KB' below 1024^2, 'MB' below
\* 1024^3 and 'GB' from there on; bytes as a whole number, the other units
\* with exactly one decimal; and 0 gives '0B'.
C22_FormatSizeUnits ==
    result.called =>
        LET size == arg.size
            out == result.value
        IN  /\ out.unit = "B" <=> Below(size, 1)
            /\ out.unit = "KB" <=> (~Below(size, 1) /\ Below(size, 2))
            /\ out.unit = "MB" <=> (~Below(size, 2) /\ Below(size, 3))
            /\ out.unit = "GB" <=> ~Below(size, 3)
            /\ out.unit = "B" => (out.decimals = <<>> /\ out.whole = size[1])
            /\ out.unit # "B" => Len(out.decimals) = 1
            /\ size = <<0>> => (out.whole = 0 /\ out.decimals = <<>> /\ out.unit = "B")

C22_Witness ==
    /\ result.called
    /\ arg.size = <<1, 0, 0, 0, 0>>
    /\ result.value = [whole |-> 1024, decimals |-> <<0>>, unit |-> "GB"]

Fetches == {"fetch list", "fetch tree"}

Responses == {"response list", "response tree"}

Count(trace, steps) == Cardinality({n \in DOMAIN trace : trace[n] \in steps})

Before(trace, n, step) == \E m \in 1..(n - 1) : trace[m] = step

PathBeforeRequests(trace) ==
    \A n \in DOMAIN trace : trace[n] \in Fetches => Before(trace, n, "path")

RebuildAfterResponse(trace) ==
    \A n \in DOMAIN trace :
        /\ trace[n] = "list" => (n > 2 /\ trace[n - 1] = "response list"
                                       /\ trace[n - 2] = "fetch list")
        /\ trace[n] = "tree" => (n > 2 /\ trace[n - 1] = "response tree"
                                       /\ trace[n - 2] = "fetch tree")

ListBeforeTree(trace) ==
    \A n \in DOMAIN trace :
        trace[n] \in {"toggle", "fetch tree", "tree"} => Before(trace, n, "list")

SelectionLast(trace) ==
    \A n \in DOMAIN trace :
        trace[n] = "select" =>
            /\ n = Len(trace)
            /\ Count(trace, Fetches) = Count(trace, Responses)

\* C23: in the steps of every click, complete or not, currentPath is set
\* before a request is sent, the list and a subtree of the tree are rebuilt
\* right after the response to their request, the list is rebuilt before
\* the tree is toggled or expanded, and the selection is marked last, with
\* no request left unanswered.
C23_OrderOfSteps ==
    \A op \in Operations :
        op.kind = "select" =>
            /\ PathBeforeRequests(op.trace)
            /\ RebuildAfterResponse(op.trace)
            /\ ListBeforeTree(op.trace)
            /\ SelectionLast(op.trace)

C23_Witness ==
    /\ done.kind = "select"
    /\ done.source = "list"
    /\ done.trace = <<"path", "fetch list", "response list", "list",
                      "toggle", "fetch tree", "response tree", "tree",
                      "toggle", "fetch tree", "response tree", "tree", "select">>

\* ---- C24
IsParentRow(row) == row.onClick = "parent"

FolderRows(list) == {r \in DOMAIN list.rows : list.rows[r].icon = "folder" /\ ~IsParentRow(list.rows[r])}

IconsFollowExpandedFolders ==
    \A r \in FolderRows(listView) :
        listView.rows[r].open <=> has(expandedFolders, buildPath(listView.rows[r].name, currentPath))

ParentRowClosed ==
    \A r \in DOMAIN listView.rows : IsParentRow(listView.rows[r]) => ~listView.rows[r].open

\* C24: when every click has completed before the next one, a folder row of
\* the list shows the open icon exactly when buildPath(row name, currentPath)
\* is in expandedFolders, and the '...' row never shows the open icon
C24_ListIcons ==
    (Quiescent /\ Rendered) => (IconsFollowExpandedFolders /\ ParentRowClosed)

\* The first half alone: folder rows other than the '...' row
FolderRowIcons == (Quiescent /\ Rendered) => IconsFollowExpandedFolders

\* ---- C25
OnePathPerNode ==
    \A q, r \in DOMAIN treeView : treeView[q].path = treeView[r].path => q = r

ChildrenOnlyWhileExpanded ==
    \A q \in DOMAIN treeView :
        childrenOf(treeView, q) # {} => has(expandedFolders, treeView[q].path)

\* C25: in every interleaving of clicks and responses no two nodes of the
\* tree have the same path, and a node has children only while its path is
\* in expandedFolders
C25_TreeConsistent == OnePathPerNode /\ ChildrenOnlyWhileExpanded

\* ---- C26
FolderRowClicked(k) == ops[k].kind = "idle" /\ IsOp(ops'[k], "folder")

DisplayedFolders ==
    {buildPath(listView.rows[r].name, listView.listed) : r \in FolderRows(listView)}

SelectsDisplayedFolder ==
    \A k \in Slots : FolderRowClicked(k) => ops'[k].path \in DisplayedFolders

\* C26: a click on a folder row of the list selects the folder the row
\* displays, the listed directory joined with the row's name, also when
\* currentPath has changed since the row was rendered
C26_RowSelectsItsFolder == [][SelectsDisplayedFolder]_vars

====
